---- MODULE Spec2Model ----
(***************************************************************************)
(* A model of agents/logger.py: the AgentLogger console logger.            *)
(*                                                                         *)
(* The logger's state is its two flags and the iteration counter.  Every   *)
(* method is one action, taken by the caller between two calls (op is      *)
(* "idle"); the action records the method called, its arguments, the       *)
(* sequence of print() calls it made (stdout), whether it propagated an    *)
(* exception (raised) and, for the serializers, its return value (ret).    *)
(* Resume is the caller going on after the call: what the call wrote and   *)
(* returned is the caller's, the logger keeps its three fields only.       *)
(*                                                                         *)
(* Text is modelled by TLA+ strings.  The box-drawing characters and the   *)
(* emoji of the source are each written as one ASCII character, so that    *)
(* every len() of the source is the Len of the model:                      *)
(*     box corners +    horizontal rule - and =    vertical rule |         *)
(*     emoji @          section icon >                                     *)
(* A printed line is a sequence of segments, a segment being a text and    *)
(* the colour _color wrapped it in ("none": not wrapped).                  *)
(*                                                                         *)
(* Python values are tagged records [t, v]:                                *)
(*     str  v: the string          int  v: the integer     none            *)
(*     list v: sequence of values  dict v: sequence of <<key, value>>      *)
(*     obj  v: sequence of <<attribute, value>>, an attribute-bearing      *)
(*             object, which json.dumps cannot encode                      *)
(***************************************************************************)
EXTENDS Integers, Sequences, FiniteSets, TLC

VARIABLES verbose, show_raw, _iteration, op, args, stdout, raised, ret,
          hist_iteration

vars == <<verbose, show_raw, _iteration, op, args, stdout, raised, ret,
          hist_iteration>>

-----------------------------------------------------------------------------
(* Bounds of the model *)

\* string lengths are drawn from limit - Slack .. limit + Slack around each limit
Slack == 1
\* loop_iteration arguments are drawn from 0 .. MaxIteration
MaxIteration == 2

(* Constants of the program *)

PreviewLimit == 60
ResultLimit == 300
IdLimit == 24
InputLimit == 60
SystemLimit == 100
DescriptionLimit == 50
ToolIdLimit == 16
TextLimit == 100
CodeLineMax == 74
CodeLineKeep == 71
CodeBorder == 76
RuleWidth == 80
BannerWidth == 78
DefaultMaxTokens == 8000

-----------------------------------------------------------------------------
(* Python values *)

PStr(s) == [t |-> "str", v |-> s]
PInt(n) == [t |-> "int", v |-> n]
PNone == [t |-> "none", v |-> 0]
PList(items) == [t |-> "list", v |-> items]
PDict(pairs) == [t |-> "dict", v |-> pairs]
PObj(pairs) == [t |-> "obj", v |-> pairs]

Min(a, b) == IF a < b THEN a ELSE b

\* char * n  (a count below 1 gives the empty string)
RECURSIVE Rep(_, _)
Rep(c, n) ==
    IF n <= 0 THEN ""
    ELSE IF n = 1 THEN c
    ELSE LET half == Rep(c, n \div 2)
         IN  half \o half \o (IF n % 2 = 1 THEN c ELSE "")

\* s[:n]
Slice(s, n) == SubSeq(s, 1, Min(n, Len(s)))

\* f"{s:<n}"
PadRight(s, n) == s \o Rep(" ", n - Len(s))

\* key in d  /  hasattr(o, key)
HasKey(pairs, key) == \E i \in 1..Len(pairs) : pairs[i][1] = key

\* d[key]  (the first pair with the key)
Lookup(pairs, key) ==
    pairs[CHOOSE i \in 1..Len(pairs) :
              pairs[i][1] = key /\ \A j \in 1..(i - 1) : pairs[j][1] # key][2]

\* block.get(key, default) on a dict
DictGet(d, key, default) == IF HasKey(d.v, key) THEN Lookup(d.v, key) ELSE default

\* getattr(block, key, default): a dict has none of the attributes asked for
GetAttr(o, key, default) ==
    IF o.t = "obj" /\ HasKey(o.v, key) THEN Lookup(o.v, key) ELSE default

\* str(value) for the values the model passes to it
PyStr(x) ==
    CASE x.t = "str" -> x.v
      [] x.t = "int" -> ToString(x.v)
      [] x.t = "none" -> "None"
      [] OTHER -> "<object>"

\* structural equality of two values (tags first: values of different
\* types are unequal, never incomparable)
RECURSIVE PyEq(_, _)
PyEq(a, b) ==
    /\ a.t = b.t
    /\ CASE a.t \in {"str", "int"} -> a.v = b.v
         [] a.t = "none" -> TRUE
         [] a.t = "list" ->
                /\ Len(a.v) = Len(b.v)
                /\ \A i \in 1..Len(a.v) : PyEq(a.v[i], b.v[i])
         [] OTHER ->   \* the same keys with equal values, in any order
                /\ Len(a.v) = Len(b.v)
                /\ \A i \in 1..Len(a.v) :
                       /\ HasKey(b.v, a.v[i][1])
                       /\ PyEq(a.v[i][2], Lookup(b.v, a.v[i][1]))

-----------------------------------------------------------------------------
(* json.dumps(data, ensure_ascii=False, indent=k) *)

\* the encoder raises TypeError on a value that is no JSON value
RECURSIVE JsonEncodable(_)
JsonEncodable(x) ==
    CASE x.t \in {"str", "int", "none"} -> TRUE
      [] x.t = "list" -> \A i \in 1..Len(x.v) : JsonEncodable(x.v[i])
      [] x.t = "dict" -> \A i \in 1..Len(x.v) : JsonEncodable(x.v[i][2])
      [] OTHER -> FALSE

JsonEscapeChar(c) ==
    CASE c = "\"" -> "\\\""
      [] c = "\\" -> "\\\\"
      [] c = "\n" -> "\\n"
      [] OTHER -> c

\* the escaped characters lo..hi of s
RECURSIVE JsonEscape(_, _, _)
JsonEscape(s, lo, hi) ==
    IF lo > hi THEN ""
    ELSE IF lo = hi THEN JsonEscapeChar(SubSeq(s, lo, lo))
    ELSE LET mid == (lo + hi) \div 2
         IN  JsonEscape(s, lo, mid) \o JsonEscape(s, mid + 1, hi)

JsonStr(s) == "\"" \o JsonEscape(s, 1, Len(s)) \o "\""

\* the lines of the encoding of x at nesting depth level: the first line
\* carries no indentation (it follows a key or an item's indentation)
RECURSIVE JsonLines(_, _, _)
RECURSIVE JsonItems(_, _, _, _)
RECURSIVE JsonMembers(_, _, _, _)

JsonPlace(lines, prefix, last) ==
    [j \in 1..Len(lines) |->
        (IF j = 1 THEN prefix ELSE "") \o lines[j]
        \o (IF j = Len(lines) /\ ~last THEN "," ELSE "")]

JsonItems(items, indent, level, i) ==
    IF i > Len(items) THEN <<>>
    ELSE JsonPlace(JsonLines(items[i], indent, level),
                   Rep(" ", indent * level), i = Len(items))
         \o JsonItems(items, indent, level, i + 1)

JsonMembers(pairs, indent, level, i) ==
    IF i > Len(pairs) THEN <<>>
    ELSE JsonPlace(JsonLines(pairs[i][2], indent, level),
                   Rep(" ", indent * level) \o JsonStr(pairs[i][1]) \o ": ",
                   i = Len(pairs))
         \o JsonMembers(pairs, indent, level, i + 1)

JsonLines(x, indent, level) ==
    CASE x.t = "str" -> <<JsonStr(x.v)>>
      [] x.t = "int" -> <<ToString(x.v)>>
      [] x.t = "none" -> <<"null">>
      [] x.t = "list" ->
            IF Len(x.v) = 0 THEN <<"[]">>
            ELSE <<"[">> \o JsonItems(x.v, indent, level + 1, 1)
                 \o <<Rep(" ", indent * level) \o "]">>
      [] OTHER ->
            IF Len(x.v) = 0 THEN <<"{}">>
            ELSE <<"{">> \o JsonMembers(x.v, indent, level + 1, 1)
                 \o <<Rep(" ", indent * level) \o "}">>

\* formatted.split("\n"): a newline inside a string is escaped by the
\* encoder, so the lines are the encoder's lines
JsonDumpsLines(data, indent) == JsonLines(data, indent, 0)

-----------------------------------------------------------------------------
(* Formatter core *)

ColorNames == {"reset", "bold", "dim", "underline", "red", "green", "yellow",
               "blue", "magenta", "cyan", "white", "bg_black", "bg_red",
               "bg_green", "bg_yellow", "bg_blue", "bg_magenta", "bg_cyan"}

\* text outside any _color call
Plain(text) == <<[text |-> text, color |-> "none"]>>

\* COLORS.get(color, '') + text + COLORS['reset']
_color(text, color) ==
    <<[text |-> text, color |-> IF color \in ColorNames THEN color ELSE ""]>>

\* the characters of a printed line, colours aside
RECURSIVE LineText(_)
LineText(line) ==
    IF Len(line) = 0 THEN "" ELSE line[1].text \o LineText(Tail(line))

\* the outcome of a call: what it printed, whether it raised, what it returned
Returned(lines) == [raised |-> FALSE, ret |-> PNone, lines |-> lines]
Raised(lines) == [raised |-> TRUE, ret |-> PNone, lines |-> lines]

separator(title, char, width) ==
    IF ~verbose THEN <<>>
    ELSE LET line == IF title # ""
                     THEN Rep(char, 10) \o " " \o title \o " "
                          \o Rep(char, width - 12 - Len(title))
                     ELSE Rep(char, width)
         IN  <<_color("\n" \o line, "dim")>>

header(text, session_name) ==
    <<_color("\n" \o Rep("=", RuleWidth), "cyan")>>
    \o (IF session_name # "" THEN <<_color("  [" \o session_name \o "]", "dim")>>
        ELSE <<>>)
    \o <<_color("  " \o text, "bold"), _color(Rep("=", RuleWidth), "cyan")>>

\* section without its verbose gate
section_ungated(text, icon) ==
    <<_color("\n" \o icon \o " " \o text, "cyan")>>

section(text, icon) ==
    IF ~verbose THEN <<>>
    ELSE <<_color("\n" \o icon \o " " \o text, "cyan")>>

\* value is the line (segments) the f-string interpolates
key_value(key, value, indent, color) ==
    <<Plain(Rep(" ", indent)) \o _color(key \o ":", color) \o Plain(" ") \o value>>

json_block(title, data, indent, color) ==
    IF ~verbose THEN <<>>
    ELSE <<Plain(Rep(" ", indent)) \o _color(title \o ":", color)>>
         \o (IF JsonEncodable(data)
             THEN LET formatted == JsonDumpsLines(data, indent + 2)
                  IN  [j \in 1..Len(formatted) |->
                          _color(Rep(" ", indent) \o "  " \o formatted[j], "dim")]
             ELSE <<_color(Rep(" ", indent) \o "  " \o PyStr(data), "dim")>>)

-----------------------------------------------------------------------------
(* Serializer *)

\* an exception raised inside the computation of a value
PRaise == [t |-> "raise", v |-> 0]

AnyRaise(items) == \E i \in 1..Len(items) : items[i].t = "raise"

IsStr(x, s) == x.t = "str" /\ x.v = s

\* the values "for block in content" yields: a list's items, a dict's keys,
\* a string's characters; anything else is not iterable (TypeError)
Iterable(x) == x.t \in {"list", "dict", "str"}

ItemsOf(x) ==
    CASE x.t = "list" -> x.v
      [] x.t = "dict" -> [i \in 1..Len(x.v) |-> PStr(x.v[i][1])]
      [] OTHER -> [i \in 1..Len(x.v) |-> PStr(SubSeq(x.v, i, i))]

\* SerializeBlock dropping the id of a tool_use block
SerializeBlockNoId(block) ==
    IF block.t = "dict" THEN block
    ELSE LET block_type == GetAttr(block, "type", PNone)
         IN  IF IsStr(block_type, "text")
             THEN PDict(<< <<"type", PStr("text")>>,
                           <<"text", GetAttr(block, "text", PStr(""))>> >>)
             ELSE IF IsStr(block_type, "tool_use")
             THEN LET input == GetAttr(block, "input", PDict(<<>>))
                  IN  IF input.t = "dict"
                      THEN PDict(<< <<"type", PStr("tool_use")>>,
                                    <<"name", GetAttr(block, "name", PStr(""))>>,
                                    <<"input", input>> >>)
                      ELSE PRaise
             ELSE PDict(<< <<"type", PStr(PyStr(block_type))>> >>)

\* one pass of the loop body of _serialize_content
SerializeBlock(block) ==
    IF block.t = "dict" THEN block
    ELSE LET block_type == GetAttr(block, "type", PNone)
         IN  IF IsStr(block_type, "text")
             THEN PDict(<< <<"type", PStr("text")>>,
                           <<"text", GetAttr(block, "text", PStr(""))>> >>)
             ELSE IF IsStr(block_type, "tool_use")
             THEN LET input == GetAttr(block, "input", PDict(<<>>))
                  IN  \* dict(input) copies a mapping and raises otherwise
                      IF input.t = "dict"
                      THEN PDict(<< <<"type", PStr("tool_use")>>,
                                    <<"id", GetAttr(block, "id", PStr(""))>>,
                                    <<"name", GetAttr(block, "name", PStr(""))>>,
                                    <<"input", input>> >>)
                      ELSE PRaise
             ELSE PDict(<< <<"type", PStr(PyStr(block_type))>> >>)

\* the returned list, or PRaise
_serialize_content(content) ==
    IF ~Iterable(content) THEN PRaise
    ELSE LET blocks == ItemsOf(content)
             result == [i \in 1..Len(blocks) |-> SerializeBlock(blocks[i])]
         IN  IF AnyRaise(result) THEN PRaise ELSE PList(result)

SerializeMessage(msg) ==
    IF ~HasKey(msg.v, "role") THEN PRaise   \* msg["role"]: KeyError
    ELSE LET content == DictGet(msg, "content", PStr(""))
             serialized ==
                 CASE content.t = "str" -> content
                   [] content.t = "list" -> _serialize_content(content)
                   [] OTHER -> PStr(PyStr(content))
         IN  IF serialized.t = "raise" THEN PRaise
             ELSE PDict(<< <<"role", Lookup(msg.v, "role")>>,
                           <<"content", serialized>> >>)

_serialize_messages(messages) ==
    LET result == [i \in 1..Len(messages) |-> SerializeMessage(messages[i])]
    IN  IF AnyRaise(result) THEN PRaise ELSE PList(result)

-----------------------------------------------------------------------------
(* Framed JSON output *)

JsonError(indent) ==
    <<_color(indent \o "Object is not JSON serializable", "red")>>

_print_structured_json(data, title) ==
    <<_color("\n  @ " \o title \o ":", "cyan")>>
    \o (IF JsonEncodable(data)
        THEN LET formatted == JsonDumpsLines(data, 4)
             IN  [j \in 1..Len(formatted) |-> _color("    " \o formatted[j], "dim")]
        ELSE JsonError("    Error formatting: "))

\* CodeLine cutting at the limit instead of three characters before it
CodeLineLoose(line) ==
    IF Len(line) > CodeLineMax THEN Slice(line, CodeLineMax) \o "..." ELSE line

\* the line as shown inside the frame
CodeLine(line) ==
    IF Len(line) > CodeLineMax THEN Slice(line, CodeLineKeep) \o "..." ELSE line

_print_code_block(data) ==
    IF JsonEncodable(data)
    THEN LET formatted == JsonDumpsLines(data, 2)
         IN  <<_color("  " \o "+" \o Rep("-", CodeBorder) \o "+", "dim")>>
             \o [j \in 1..Len(formatted) |->
                    _color("  | " \o PadRight(CodeLine(formatted[j]), CodeLineMax)
                           \o " |", "dim")]
             \o <<_color("  " \o "+" \o Rep("-", CodeBorder) \o "+", "dim")>>
    ELSE JsonError("    Error: ")

-----------------------------------------------------------------------------
(* Raw API traffic *)

Banner(title, pad, color) ==
    << _color("\n" \o "+" \o Rep("-", BannerWidth) \o "+", color),
       _color("|  @ " \o title \o Rep(" ", pad) \o "|", color),
       _color("+" \o Rep("-", BannerWidth) \o "+", color) >>

\* the summary token of one block; mapping_aware: the branch that tests
\* isinstance(block, dict) before it reads the block
BlockSummary(block, mapping_aware) ==
    LET Field(key, default) ==
            IF mapping_aware /\ block.t = "dict"
            THEN DictGet(block, key, default)
            ELSE GetAttr(block, key, default)
        block_type == Field("type", PStr("unknown"))
    IN  IF IsStr(block_type, "tool_result")
        THEN LET tool_id == Field("tool_use_id", PStr(""))
             IN  IF tool_id.t = "str"
                 THEN PStr("tool_result(id=" \o Slice(tool_id.v, ToolIdLimit) \o "...)")
                 ELSE PRaise
        ELSE IF IsStr(block_type, "tool_use")
        THEN PStr("tool_use(name=" \o PyStr(Field("name", PStr(""))) \o ")")
        ELSE block_type

\* {"name": t["name"], "description": t["description"][:50] + "..."}
ToolEntry(tool) ==
    IF /\ tool.t = "dict"
       /\ HasKey(tool.v, "name")
       /\ HasKey(tool.v, "description")
       /\ Lookup(tool.v, "description").t = "str"
    THEN PDict(<< <<"name", Lookup(tool.v, "name")>>,
                  <<"description",
                    PStr(Slice(Lookup(tool.v, "description").v, DescriptionLimit)
                         \o "...")>> >>)
    ELSE PRaise

MessageEntry(msg) ==
    IF ~HasKey(msg.v, "role") THEN PRaise   \* msg["role"]: KeyError
    ELSE LET content == DictGet(msg, "content", PStr(""))
             blocks == ItemsOf(content)
             blocks_summary ==
                 [i \in 1..Len(blocks) |->
                     BlockSummary(blocks[i], content.t = "list")]
             entry ==
                 IF content.t = "str"
                 THEN PStr("<text: " \o ToString(Len(content.v)) \o " chars>")
                 ELSE IF ~Iterable(content) \/ AnyRaise(blocks_summary)
                 THEN PRaise
                 ELSE PList(blocks_summary)
         IN  IF entry.t = "raise" THEN PRaise
             ELSE PDict(<< <<"role", Lookup(msg.v, "role")>>,
                           <<"content", entry>> >>)

SystemPreview(system) ==
    IF Len(system) > SystemLimit THEN Slice(system, SystemLimit) \o "..." ELSE system

\* the compact structure request_raw builds, or PRaise
RequestData(model, system, messages, tools, max_tokens) ==
    LET tool_entries == [i \in 1..Len(tools) |-> ToolEntry(tools[i])]
        msg_entries == [i \in 1..Len(messages) |-> MessageEntry(messages[i])]
    IN  IF AnyRaise(tool_entries) \/ AnyRaise(msg_entries) THEN PRaise
        ELSE PDict(<< <<"model", PStr(model)>>,
                      <<"max_tokens", PInt(max_tokens)>>,
                      <<"system", PStr(SystemPreview(system))>>,
                      <<"tools", PList(tool_entries)>>,
                      <<"messages", PList(msg_entries)>> >>)

\* the literal request request_raw dumps, or PRaise
FullRequest(model, system, messages, tools, max_tokens) ==
    LET serialized == _serialize_messages(messages)
    IN  IF serialized.t = "raise" THEN PRaise
        ELSE PDict(<< <<"model", PStr(model)>>,
                      <<"max_tokens", PInt(max_tokens)>>,
                      <<"system", PStr(system)>>,
                      <<"tools", PList(tools)>>,
                      <<"messages", serialized>> >>)

request_raw(model, system, messages, tools, max_tokens) ==
    IF ~show_raw THEN Returned(<<>>)
    ELSE LET banner == Banner("RAW API REQUEST", 57, "magenta")
             request_data == RequestData(model, system, messages, tools, max_tokens)
             full_request == FullRequest(model, system, messages, tools, max_tokens)
             preview == banner
                        \o _print_structured_json(request_data, "Request Structure")
                        \o <<_color("\n  @ Full Request JSON (copy-paste ready):",
                                    "cyan")>>
         IN  IF request_data.t = "raise" THEN Raised(banner)
             ELSE IF full_request.t = "raise" THEN Raised(preview)
             ELSE Returned(preview \o _print_code_block(full_request))

\* response.<name>: AttributeError when the attribute is absent
HasAttrs(o, names) == o.t = "obj" /\ \A n \in names : HasKey(o.v, n)

ResponseReadable(response) ==
    /\ HasAttrs(response, {"id", "model", "role", "stop_reason",
                           "stop_sequence", "usage"})
    /\ HasAttrs(Lookup(response.v, "usage"), {"input_tokens", "output_tokens"})

ResponseHead(response) ==
    LET usage == Lookup(response.v, "usage")
    IN  << <<"id", Lookup(response.v, "id")>>,
           <<"model", Lookup(response.v, "model")>>,
           <<"role", Lookup(response.v, "role")>>,
           <<"stop_reason", Lookup(response.v, "stop_reason")>>,
           <<"stop_sequence", Lookup(response.v, "stop_sequence")>>,
           <<"usage", PDict(<< <<"input_tokens", Lookup(usage.v, "input_tokens")>>,
                               <<"output_tokens", Lookup(usage.v, "output_tokens")>> >>)>> >>

BlockEntry(block) ==
    LET block_type == GetAttr(block, "type", PStr("unknown"))
    IN  IF IsStr(block_type, "text")
        THEN LET text == GetAttr(block, "text", PStr(""))
             IN  IF text.t = "str"
                 THEN PDict(<< <<"type", block_type>>,
                               <<"text", PStr("<" \o ToString(Len(text.v)) \o " chars>")>> >>)
                 ELSE PRaise   \* len(text): TypeError
        ELSE IF IsStr(block_type, "tool_use")
        THEN PDict(<< <<"type", block_type>>,
                      <<"id", GetAttr(block, "id", PStr(""))>>,
                      <<"name", GetAttr(block, "name", PStr(""))>>,
                      <<"input", GetAttr(block, "input", PDict(<<>>))>> >>)
        ELSE PDict(<< <<"type", block_type>> >>)

response_raw(response) ==
    IF ~show_raw THEN Returned(<<>>)
    ELSE LET banner == Banner("RAW API RESPONSE", 56, "blue")
             content == IF HasAttrs(response, {"content"})
                        THEN Lookup(response.v, "content") ELSE PRaise
             blocks == ItemsOf(content)
             entries == [i \in 1..Len(blocks) |-> BlockEntry(blocks[i])]
             response_data == PDict(ResponseHead(response)
                                    \o << <<"content", PList(entries)>> >>)
             serialized == _serialize_content(content)
             full_response == PDict(ResponseHead(response)
                                    \o << <<"content", serialized>> >>)
             preview == banner
                        \o _print_structured_json(response_data, "Response Structure")
                        \o <<_color("\n  @ Full Response JSON (copy-paste ready):",
                                    "cyan")>>
         IN  IF \/ ~ResponseReadable(response)
                \/ ~Iterable(content)
                \/ AnyRaise(entries)
             THEN Raised(banner)
             ELSE IF serialized.t = "raise" THEN Raised(preview)
             ELSE Returned(preview \o _print_code_block(full_response))

-----------------------------------------------------------------------------
(* Loop and message tracking *)

\* loop_iteration storing the counter before it tests verbose
loop_iteration_unguarded(iteration) ==
    IF ~verbose
    THEN [raised |-> FALSE, ret |-> PNone, lines |-> <<>>, counter |-> iteration]
    ELSE [raised |-> FALSE, ret |-> PNone,
          lines |-> << _color("\n" \o "+" \o Rep("-", BannerWidth) \o "+", "cyan"),
                       _color("|  @ LOOP ITERATION #"
                              \o PadRight(ToString(iteration), 62) \o "|", "cyan"),
                       _color("+" \o Rep("-", BannerWidth) \o "+", "cyan") >>,
          counter |-> iteration]

\* counter: the value of self._iteration when the call ends
loop_iteration(iteration) ==
    IF ~verbose
    THEN [raised |-> FALSE, ret |-> PNone, lines |-> <<>>, counter |-> _iteration]
    ELSE [raised |-> FALSE, ret |-> PNone,
          lines |-> << _color("\n" \o "+" \o Rep("-", BannerWidth) \o "+", "cyan"),
                       _color("|  @ LOOP ITERATION #"
                              \o PadRight(ToString(iteration), 62) \o "|", "cyan"),
                       _color("+" \o Rep("-", BannerWidth) \o "+", "cyan") >>,
          counter |-> iteration]

RoleColor(role) ==
    IF IsStr(role, "user") THEN "green"
    ELSE IF IsStr(role, "assistant") THEN "yellow" ELSE "white"

\* str(block_types)
ReprItem(x) == IF x.t = "str" THEN "'" \o x.v \o "'" ELSE PyStr(x)

RECURSIVE ReprJoin(_, _)
ReprJoin(items, i) ==
    IF i > Len(items) THEN ""
    ELSE ReprItem(items[i]) \o (IF i < Len(items) THEN ", " ELSE "")
         \o ReprJoin(items, i + 1)

ListRepr(items) == "[" \o ReprJoin(items, 1) \o "]"

SnapshotPreview(content) ==
    Slice(content, PreviewLimit)
    \o (IF Len(content) > PreviewLimit THEN "..." ELSE "")

\* the line of message i (counted from 0), or none
SnapshotLine(msg, i) ==
    LET role == DictGet(msg, "role", PStr("unknown"))
        content == DictGet(msg, "content", PStr(""))
        lead == Plain("    [" \o ToString(i) \o "] ")
                \o _color(PyStr(role), RoleColor(role)) \o Plain(": ")
    IN  IF content.t = "str"
        THEN <<lead \o _color(SnapshotPreview(content.v), "dim")>>
        ELSE IF content.t = "list"
        THEN LET block_types ==
                     [j \in 1..Len(content.v) |->
                         IF content.v[j].t = "dict"
                         THEN DictGet(content.v[j], "type", PStr("unknown"))
                         ELSE GetAttr(content.v[j], "type", PStr("unknown"))]
             IN  <<lead \o _color(ListRepr(block_types), "dim")>>
        ELSE <<>>

RECURSIVE SnapshotLines(_, _)
SnapshotLines(messages, i) ==
    IF i > Len(messages) THEN <<>>
    ELSE SnapshotLine(messages[i], i - 1) \o SnapshotLines(messages, i + 1)

messages_snapshot(messages, title) ==
    IF ~verbose THEN <<>>
    ELSE << _color("\n  @ " \o title, "blue"),
            _color("  Total messages: " \o ToString(Len(messages)), "dim") >>
         \o SnapshotLines(messages, 1)

-----------------------------------------------------------------------------
(* Tool calls *)

InputLine(pair) ==
    LET v_str == PyStr(pair[2])
    IN  _color("      " \o pair[1] \o ": "
               \o (IF Len(v_str) > InputLimit
                   THEN Slice(v_str, InputLimit) \o "..." ELSE v_str), "dim")

tool_call(name, input_data, tool_id) ==
    LET head == <<_color("\n  @ TOOL CALL", "green")>>
                \o (IF tool_id # ""
                    THEN key_value("id", _color(Slice(tool_id, IdLimit) \o "...", "dim"),
                                   4, "green")
                    ELSE <<>>)
                \o key_value("name", _color(name, "green"), 4, "green")
                \o key_value("input", Plain(""), 4, "green")
    IN  IF input_data.t # "dict" THEN Raised(head)   \* input_data.items()
        ELSE Returned(head \o [i \in 1..Len(input_data.v) |-> InputLine(input_data.v[i])])

\* ResultPreview with the ellipsis already at the limit
ResultPreviewAtLimit(content) ==
    Slice(content, ResultLimit)
    \o (IF Len(content) >= ResultLimit THEN "..." ELSE "")

ResultPreview(content) ==
    Slice(content, ResultLimit)
    \o (IF Len(content) > ResultLimit THEN "..." ELSE "")

\* tool_result cutting the id where the request preview cuts it
tool_result_short_id(tool_id, content, is_error) ==
    LET color == IF is_error THEN "red" ELSE "blue"
        icon == IF is_error THEN "x" ELSE "v"
    IN  <<_color("\n  " \o icon \o " TOOL RESULT", color)>>
        \o key_value("tool_use_id", Plain(Slice(tool_id, ToolIdLimit) \o "..."), 4, color)
        \o key_value("content", _color("\"" \o ResultPreview(content) \o "\"", "dim"),
                     4, color)

tool_result(tool_id, content, is_error) ==
    LET color == IF is_error THEN "red" ELSE "blue"
        icon == IF is_error THEN "x" ELSE "v"
    IN  <<_color("\n  " \o icon \o " TOOL RESULT", color)>>
        \o key_value("tool_use_id", Plain(Slice(tool_id, IdLimit) \o "..."), 4, color)
        \o key_value("content", _color("\"" \o ResultPreview(content) \o "\"", "dim"),
                     4, color)

-----------------------------------------------------------------------------
(* LLM interaction summaries *)

\* now: the clock's reading, already formatted HH:MM:SS.mmm
_timestamp(now) == _color(now, "dim")

llm_request_summary(model, messages_count, tools_count, now) ==
    IF ~verbose THEN <<>>
    ELSE <<_color("\n  @ LLM REQUEST SUMMARY", "magenta")>>
         \o key_value("model", Plain(model), 4, "magenta")
         \o key_value("messages_count", Plain(ToString(messages_count)), 4, "magenta")
         \o key_value("tools_count", Plain(ToString(tools_count)), 4, "magenta")
         \o key_value("timestamp", _timestamp(now), 4, "magenta")

llm_response_summary(stop_reason, usage, content_blocks) ==
    IF ~verbose THEN <<>>
    ELSE <<_color("\n  @ LLM RESPONSE SUMMARY", "magenta")>>
         \o key_value("stop_reason",
                      _color(stop_reason,
                             IF stop_reason = "tool_use" THEN "yellow" ELSE "green"),
                      4, "magenta")
         \o key_value("content_blocks", Plain(ToString(content_blocks)), 4, "magenta")
         \o key_value("usage",
                      Plain("input=" \o PyStr(DictGet(usage, "input_tokens", PInt(0)))
                            \o ", output="
                            \o PyStr(DictGet(usage, "output_tokens", PInt(0)))),
                      4, "magenta")

ContentBlockLine(block, i) ==
    LET Field(key, default) ==
            IF block.t = "dict" THEN DictGet(block, key, default)
            ELSE GetAttr(block, key, default)
        block_type == Field("type", PStr("unknown"))
        text == PyStr(Field("text", PStr("")))
        label == "Block [" \o ToString(i) \o "]"
    IN  IF IsStr(block_type, "text")
        THEN key_value(label,
                       Plain("type=text, text=\"" \o Slice(text, TextLimit)
                             \o (IF Len(text) > TextLimit THEN "..." ELSE "") \o "\""),
                       4, "yellow")
        ELSE IF IsStr(block_type, "tool_use")
        THEN key_value(label,
                       Plain("type=tool_use, name=" \o PyStr(Field("name", PStr("")))),
                       4, "yellow")
        ELSE <<>>

RECURSIVE ContentBlockLines(_, _)
ContentBlockLines(content_blocks, i) ==
    IF i > Len(content_blocks) THEN <<>>
    ELSE ContentBlockLine(content_blocks[i], i - 1)
         \o ContentBlockLines(content_blocks, i + 1)

response_content_blocks(content_blocks) ==
    IF ~verbose THEN <<>>
    ELSE section("Response Content Blocks", "@")
         \o ContentBlockLines(content_blocks, 1)

loop_end(reason) == section("@ LOOP END: " \o reason, "@")

\* user_input printing the query only when verbose
user_input_gated(query) ==
    separator("USER INPUT", "-", RuleWidth)
    \o (IF verbose THEN <<Plain("  " \o query)>> ELSE <<>>)

user_input(query) ==
    separator("USER INPUT", "-", RuleWidth) \o <<Plain("  " \o query)>>

-----------------------------------------------------------------------------
(* Construction *)

Init ==
    /\ verbose \in BOOLEAN
    /\ show_raw \in BOOLEAN
    /\ _iteration = 0
    /\ op = "idle"
    /\ args = <<>>
    /\ stdout = <<>>
    /\ raised = FALSE
    /\ ret = PNone
    /\ hist_iteration = 0

\* a call of a method that leaves the counter alone
Call(name, arguments, outcome) ==
    /\ op = "idle"
    /\ op' = name
    /\ args' = arguments
    /\ stdout' = outcome.lines
    /\ raised' = outcome.raised
    /\ ret' = outcome.ret
    /\ UNCHANGED <<verbose, show_raw, _iteration, hist_iteration>>

-----------------------------------------------------------------------------
(* Inputs *)

\* a string of n characters whose last character differs from the others
Text(n) == IF n <= 0 THEN "" ELSE Rep("a", n - 1) \o "b"

\* the lengths around a limit, and the empty string
Around(limit) == {0} \cup {n \in (limit - Slack)..(limit + Slack) : n >= 0}

\* a block in mapping form ("dict") or attribute form ("obj") with the fields given
Block(form, fields) == [t |-> form, v |-> fields]

Forms == {"dict", "obj"}

PlainInput == PDict(<< <<"path", PStr("/tmp/x.txt")>> >>)
\* an input whose nested value is no JSON value
OpaqueInput == PDict(<< <<"when", PObj(<<>>)>> >>)

BlockFields ==
    << \* text
       << <<"type", PStr("text")>>, <<"text", PStr("say \"hi\"\n")>> >>,
       << <<"type", PStr("text")>> >>,
       \* tool_use
       << <<"type", PStr("tool_use")>>, <<"id", PStr("toolu_" \o Text(IdLimit))>>,
          <<"name", PStr("read_file")>>, <<"input", PlainInput>> >>,
       << <<"name", PStr("bash")>>, <<"input", PDict(<<>>)>>,
          <<"type", PStr("tool_use")>>, <<"id", PStr("toolu_01")>> >>,
       << <<"type", PStr("tool_use")>>, <<"name", PStr("bash")>> >>,
       << <<"type", PStr("tool_use")>>, <<"id", PStr("toolu_02")>>,
          <<"name", PStr("bash")>>, <<"input", OpaqueInput>> >>,
       << <<"type", PStr("tool_use")>>, <<"id", PStr("toolu_03")>>,
          <<"name", PStr("bash")>>, <<"input", PNone>> >>,
       \* tool_result
       << <<"type", PStr("tool_result")>>,
          <<"tool_use_id", PStr("toolu_" \o Text(ToolIdLimit))>>,
          <<"content", PStr("ok")>> >>,
       \* unknown
       << <<"type", PStr("thinking")>> >>,
       << >> >>

Contents ==
    [i \in 1..Len(BlockFields) |-> <<i>>] \o << <<>>, <<1, 3>>, <<8, 2>> >>

\* the content list of sample k with every block in the form given
Content(k, form) ==
    PList([j \in 1..Len(Contents[k]) |-> Block(form, BlockFields[Contents[k][j]])])

Message(role, content) == PDict(<< <<"role", PStr(role)>>, <<"content", content>> >>)

MessageLists ==
    << << >>,
       << Message("user", PStr("hi")) >>,
       << Message("user", PStr("read the file")),
          Message("assistant", Content(12, "obj")),
          Message("user", Content(8, "dict")) >>,
       << Message("system", Content(13, "obj")) >>,
       \* malformed
       << PDict(<< <<"content", PStr("hi")>> >>) >>,
       << PDict(<< <<"role", PStr("user")>> >>) >>,
       << Message("user", PNone) >>,
       << Message("assistant", PInt(7)) >>,
       << Message("assistant", Content(6, "obj")) >> >>

Tool(name, description) ==
    PDict(<< <<"name", PStr(name)>>, <<"description", PStr(description)>>,
             <<"input_schema", PDict(<< <<"type", PStr("object")>> >>)>> >>)

ToolLists ==
    << << >>,
       << Tool("bash", "Run a shell command.") >>,
       << Tool("read_file", Text(DescriptionLimit + 1)) >>,
       \* malformed
       << PDict(<< <<"name", PStr("bash")>> >>) >>,
       << PDict(<< <<"description", PStr("Run a shell command.")>> >>) >> >>

\* the key every line of the request dump that holds the system prompt starts with
SystemLead == "  \"system\": \""

\* lengths around the preview limit, and around the length at which the
\* dump's line  <SystemLead><system>",  reaches the frame's limit
SystemLengths ==
    Around(SystemLimit) \cup Around(CodeLineMax - Len(SystemLead) - 2)

Usage == PObj(<< <<"input_tokens", PInt(12)>>, <<"output_tokens", PInt(5)>> >>)

Response(head, content) == PObj(head \o << <<"content", content>> >>)

FullHead ==
    << <<"id", PStr("msg_01")>>, <<"model", PStr("claude")>>,
       <<"role", PStr("assistant")>>, <<"stop_reason", PStr("tool_use")>>,
       <<"stop_sequence", PNone>>, <<"usage", Usage>> >>

\* malformed: no id; no usage; a usage without output_tokens
Heads ==
    << FullHead,
       Tail(FullHead),
       SubSeq(FullHead, 1, 5),
       SubSeq(FullHead, 1, 5)
       \o << <<"usage", PObj(<< <<"input_tokens", PInt(12)>> >>)>> >> >>

Models == {"claude"}
Clock == {"09:15:02.417", "23:59:59.999"}
Reasons == {"end_turn", "max_iterations"}
Queries == {"", "list the files"}
Ids == {Text(n) : n \in Around(IdLimit)} \cup {"toolu_" \o Text(IdLimit)}

ToolInputs ==
    << PDict(<<>>),
       PlainInput,
       PDict(<< <<"command", PStr(Text(InputLimit + 1))>>, <<"timeout", PInt(30)>> >>) >>

JsonData ==
    << PDict(<< <<"a", PInt(1)>>, <<"b", PList(<<PStr("x"), PNone>>)>> >>),
       PList(<<>>),
       OpaqueInput >>

-----------------------------------------------------------------------------
(* Operations *)

Titles == {"", "USER INPUT"}

Separator ==
    \E title \in Titles :
        Call("separator", [title |-> title],
             Returned(separator(title, "-", RuleWidth)))

Header ==
    \E text \in {"Agent Loop"}, session_name \in {"", "s01"} :
        Call("header", [text |-> text, session_name |-> session_name],
             Returned(header(text, session_name)))

Section ==
    \E text \in {"Tools", ""} :
        Call("section", [text |-> text], Returned(section(text, ">")))

KeyValue ==
    \E key \in {"model"}, value \in Models, indent \in {2, 4} :
        Call("key_value", [key |-> key, indent |-> indent, value |-> value],
             Returned(key_value(key, Plain(value), indent, "yellow")))

JsonBlock ==
    \E i \in 1..Len(JsonData) :
        Call("json_block", [data |-> JsonData[i], title |-> "data"],
             Returned(json_block("data", JsonData[i], 2, "magenta")))

RequestRaw ==
    \E model \in Models, n \in SystemLengths,
       m \in 1..Len(MessageLists), k \in 1..Len(ToolLists) :
        Call("request_raw",
             [messages |-> MessageLists[m], system |-> Text(n), model |-> model,
              tools |-> ToolLists[k], max_tokens |-> DefaultMaxTokens],
             request_raw(model, Text(n), MessageLists[m], ToolLists[k],
                         DefaultMaxTokens))

ResponseRaw ==
    \E h \in 1..Len(Heads), k \in 1..Len(Contents), form \in Forms :
        Call("response_raw", [response |-> Response(Heads[h], Content(k, form))],
             response_raw(Response(Heads[h], Content(k, form))))

ResponseRawNoContent ==
    Call("response_raw", [response |-> PObj(FullHead)], response_raw(PObj(FullHead)))

\* the outcome of a call that returns the value, or raises
Value(value) ==
    [raised |-> value.t = "raise",
     ret |-> IF value.t = "raise" THEN PNone ELSE value,
     lines |-> <<>>]

SerializeContent ==
    \E k \in 1..Len(Contents), form \in Forms :
        Call("_serialize_content", [content |-> Content(k, form)],
             Value(_serialize_content(Content(k, form))))

SerializeMessages ==
    \E m \in 1..Len(MessageLists) :
        Call("_serialize_messages", [messages |-> MessageLists[m]],
             Value(_serialize_messages(MessageLists[m])))

\* the data request_raw hands to _print_code_block
PrintCodeBlock ==
    \E model \in Models, n \in SystemLengths, m \in 1..4, k \in 1..3 :
        LET data == FullRequest(model, Text(n), MessageLists[m], ToolLists[k],
                                DefaultMaxTokens)
        IN  Call("_print_code_block", [data |-> data],
                 Returned(_print_code_block(data)))

PrintCodeBlockOpaque ==
    Call("_print_code_block", [data |-> OpaqueInput],
         Returned(_print_code_block(OpaqueInput)))

LoopIteration ==
    \E iteration \in 0..MaxIteration :
        LET outcome == loop_iteration(iteration)
        IN  /\ op = "idle"
            /\ op' = "loop_iteration"
            /\ args' = [iteration |-> iteration]
            /\ stdout' = outcome.lines
            /\ raised' = outcome.raised
            /\ ret' = outcome.ret
            /\ _iteration' = outcome.counter
            \* the argument of the latest call made while verbose
            /\ hist_iteration' = IF verbose THEN iteration ELSE hist_iteration
            /\ UNCHANGED <<verbose, show_raw>>

MessagesSnapshot ==
    \/ \E m \in 1..Len(MessageLists) :
           Call("messages_snapshot", [messages |-> MessageLists[m]],
                Returned(messages_snapshot(MessageLists[m], "MESSAGES SNAPSHOT")))
    \/ \E n \in Around(PreviewLimit), role \in {"user", "assistant", "tool"} :
           LET messages == << Message("user", PStr("hi")),
                              Message(role, PStr(Text(n))) >>
           IN  Call("messages_snapshot", [messages |-> messages],
                    Returned(messages_snapshot(messages, "MESSAGES SNAPSHOT")))

ToolCall ==
    \E name \in {"read_file"}, i \in 1..Len(ToolInputs), tool_id \in Ids :
        Call("tool_call",
             [tool_id |-> tool_id, name |-> name, input_data |-> ToolInputs[i]],
             tool_call(name, ToolInputs[i], tool_id))

ToolResult ==
    \E tool_id \in Ids, n \in Around(ResultLimit), is_error \in BOOLEAN :
        Call("tool_result",
             [content |-> Text(n), tool_id |-> tool_id, is_error |-> is_error],
             Returned(tool_result(tool_id, Text(n), is_error)))

LlmRequestSummary ==
    \E model \in Models, messages_count \in 0..1, tools_count \in 0..1, now \in Clock :
        Call("llm_request_summary",
             [model |-> model, messages_count |-> messages_count,
              tools_count |-> tools_count],
             Returned(llm_request_summary(model, messages_count, tools_count, now)))

LlmResponseSummary ==
    \E stop_reason \in {"tool_use", "end_turn"}, content_blocks \in 0..1 :
        \/ Call("llm_response_summary",
                [usage |-> "full", stop_reason |-> stop_reason,
                 content_blocks |-> content_blocks],
                Returned(llm_response_summary(
                    stop_reason,
                    PDict(<< <<"input_tokens", PInt(12)>>,
                             <<"output_tokens", PInt(5)>> >>),
                    content_blocks)))
        \/ Call("llm_response_summary",
                [usage |-> "empty", stop_reason |-> stop_reason,
                 content_blocks |-> content_blocks],
                Returned(llm_response_summary(stop_reason, PDict(<<>>), content_blocks)))

ResponseContentBlocks ==
    \E k \in 1..Len(Contents), form \in Forms :
        Call("response_content_blocks", [content_blocks |-> Content(k, form)],
             Returned(response_content_blocks(Content(k, form).v)))

LoopEnd ==
    \E reason \in Reasons :
        Call("loop_end", [reason |-> reason], Returned(loop_end(reason)))

UserInput ==
    \E query \in Queries :
        Call("user_input", [query |-> query], Returned(user_input(query)))

\* the caller goes on: the logger keeps nothing of the call but its fields
Resume ==
    /\ op # "idle"
    /\ op' = "idle"
    /\ args' = <<>>
    /\ stdout' = <<>>
    /\ raised' = FALSE
    /\ ret' = PNone
    /\ UNCHANGED <<verbose, show_raw, _iteration, hist_iteration>>

Next ==
    \/ Resume
    \/ Separator
    \/ Header
    \/ Section
    \/ KeyValue
    \/ JsonBlock
    \/ RequestRaw
    \/ ResponseRaw
    \/ ResponseRawNoContent
    \/ SerializeContent
    \/ SerializeMessages
    \/ PrintCodeBlock
    \/ PrintCodeBlockOpaque
    \/ LoopIteration
    \/ MessagesSnapshot
    \/ ToolCall
    \/ ToolResult
    \/ LlmRequestSummary
    \/ LlmResponseSummary
    \/ ResponseContentBlocks
    \/ LoopEnd
    \/ UserInput

Spec == Init /\ [][Next]_vars
-----------------------------------------------------------------------------
(* Properties *)

Printed == Len(stdout)

\* some printed line has exactly this text
Shows(text) == \E j \in 1..Len(stdout) : LineText(stdout[j]) = text

\* needle occurs in hay
Contains(hay, needle) ==
    \E i \in 1..(Len(hay) - Len(needle) + 1) :
        SubSeq(hay, i, i + Len(needle) - 1) = needle

StartsWith(s, prefix) == Len(s) >= Len(prefix) /\ SubSeq(s, 1, Len(prefix)) = prefix

RawGated == {"request_raw", "response_raw"}

VerboseGated == {"section", "json_block", "loop_iteration", "messages_snapshot",
                 "llm_request_summary", "llm_response_summary",
                 "response_content_blocks", "separator"}

\* C1: a gated renderer writes nothing when its flag is off: request_raw and
\* response_raw when show_raw is off, whatever verbose is; section,
\* json_block, loop_iteration, messages_snapshot, the two summaries,
\* response_content_blocks and separator when verbose is off, whatever
\* show_raw is.
GatedRenderersSilent ==
    /\ (op \in RawGated /\ ~show_raw) => (Printed = 0 /\ ~raised)
    /\ (op \in VerboseGated /\ ~verbose) => (Printed = 0 /\ ~raised)

\* a malformed request, which would raise were it looked at, given to a
\* logger with show_raw off and verbose on
GatedRenderersSilentWitness ==
    /\ op = "request_raw"
    /\ ~show_raw
    /\ verbose
    /\ Len(args.messages) > 0
    /\ ~HasKey(args.messages[1].v, "role")
    /\ Printed = 0

RequestRawSystemShown ==
    (op = "request_raw" /\ show_raw /\ ~raised /\ Len(args.system) > 100)
        => /\ Shows("    " \o "    \"system\": "
                    \o JsonStr(SubSeq(args.system, 1, 100) \o "...") \o ",")
           /\ \E j \in 1..Len(stdout) :
                  /\ StartsWith(LineText(stdout[j]), "  | ")
                  /\ Contains(LineText(stdout[j]), args.system)

\* the fields of a block
Keys(block) == {block.v[i][1] : i \in 1..Len(block.v)}

TypeOf(block) == IF HasKey(block.v, "type") THEN Lookup(block.v, "type") ELSE PNone

\* a text or tool_use block carrying exactly the fields of its variant
CompleteBlock(block) ==
    \/ IsStr(TypeOf(block), "text") /\ Keys(block) = {"type", "text"}
    \/ /\ IsStr(TypeOf(block), "tool_use")
       /\ Keys(block) = {"type", "id", "name", "input"}
       /\ Lookup(block.v, "input").t = "dict"

\* the same blocks in mapping form
MappingForm(content) ==
    PList([i \in 1..Len(content.v) |-> Block("dict", content.v[i].v)])

AttributeForm(content) == \A i \in 1..Len(content.v) : content.v[i].t = "obj"

\* C4, as claimed: for every block variant, _serialize_content of the block
\* in attribute form yields the structure it yields for the mapping-form
\* block carrying the same fields.
SerializationRepresentationIndependent ==
    (op = "_serialize_content" /\ AttributeForm(args.content) /\ ~raised)
        => PyEq(ret, _serialize_content(MappingForm(args.content)))

\* C4, amended: the two forms serialize alike for text and tool_use blocks
\* that carry exactly their variant's fields (type and text; type, id, name
\* and a mapping input); an attribute-form block of any other tag is reduced
\* to {type: str(tag)}, whatever fields it has, while a mapping-form block is
\* passed through whole.
SerializationIndependentForCompleteBlocks ==
    op = "_serialize_content" =>
        /\ (AttributeForm(args.content)
            /\ \A i \in 1..Len(args.content.v) : CompleteBlock(args.content.v[i]))
               => /\ ~raised
                  /\ PyEq(ret, _serialize_content(MappingForm(args.content)))
        /\ ~raised =>
               \A i \in 1..Len(args.content.v) :
                   LET block == args.content.v[i]
                   IN  /\ block.t = "dict" => PyEq(ret.v[i], block)
                       /\ (/\ block.t = "obj"
                           /\ ~IsStr(TypeOf(block), "text")
                           /\ ~IsStr(TypeOf(block), "tool_use"))
                          => PyEq(ret.v[i],
                                  PDict(<< <<"type", PStr(PyStr(TypeOf(block)))>> >>))

SerializationIndependentWitness ==
    /\ op = "_serialize_content"
    /\ AttributeForm(args.content)
    /\ Len(args.content.v) = 2
    /\ \A i \in 1..2 : CompleteBlock(args.content.v[i])
    /\ \E i \in 1..2 : IsStr(TypeOf(args.content.v[i]), "tool_use")

\* json.loads of an encoded string: the escapes undone
RECURSIVE JsonUnescape(_, _)
JsonUnescape(s, i) ==
    IF i > Len(s) THEN ""
    ELSE IF SubSeq(s, i, i) = "\\" /\ i < Len(s)
    THEN (IF SubSeq(s, i + 1, i + 1) = "n" THEN "\n" ELSE SubSeq(s, i + 1, i + 1))
         \o JsonUnescape(s, i + 2)
    ELSE SubSeq(s, i, i) \o JsonUnescape(s, i + 1)

JsonStrRoundTrip(s) == JsonUnescape(JsonEscape(s, 1, Len(s)), 1)

\* json.loads(json.dumps(x)) of an encodable value
RECURSIVE JsonRoundTrip(_)
JsonRoundTrip(x) ==
    CASE x.t = "str" -> PStr(JsonStrRoundTrip(x.v))
      [] x.t = "list" -> PList([i \in 1..Len(x.v) |-> JsonRoundTrip(x.v[i])])
      [] x.t = "dict" ->
            PDict([i \in 1..Len(x.v) |->
                      <<JsonStrRoundTrip(x.v[i][1]), JsonRoundTrip(x.v[i][2])>>])
      [] OTHER -> x

\* every field present has the type of its variant; what an input mapping
\* holds is not constrained
WellFormedBlock(block) ==
    /\ block.t \in {"dict", "obj"}
    /\ \A i \in 1..Len(block.v) :
           IF block.v[i][1] = "input" THEN block.v[i][2].t = "dict"
           ELSE block.v[i][2].t = "str"

\* C5: for any well-formed content, blocks in either form and fields
\* possibly missing, the result of _serialize_content is JSON-encodable and
\* encoding then decoding it gives an equal structure: no value that is not a
\* JSON value survives into the result.
SerializedContentJsonSafe ==
    (op = "_serialize_content"
     /\ \A i \in 1..Len(args.content.v) : WellFormedBlock(args.content.v[i]))
        => /\ ~raised
           /\ JsonEncodable(ret)
           /\ PyEq(JsonRoundTrip(ret), ret)

\* C6, as claimed: for every id, the empty one included, tool_call and
\* tool_result do not raise and show the id as its first 24 characters
\* followed by "...".
IdShownTruncated ==
    /\ (op = "tool_call" /\ args.input_data.t = "dict")
           => /\ ~raised
              /\ Shows("    id: " \o Slice(args.tool_id, 24) \o "...")
    /\ op = "tool_result"
           => /\ ~raised
              /\ Shows("    tool_use_id: " \o Slice(args.tool_id, 24) \o "...")

\* C6, amended: tool_result shows every id, and tool_call every id but the
\* empty one, as its first 24 characters followed by "..." (the whole id
\* when it is shorter), and neither raises; tool_call given the empty id
\* prints no id line.
IdShownUnlessEmpty ==
    /\ (op = "tool_call" /\ args.input_data.t = "dict")
           => /\ ~raised
              /\ args.tool_id # ""
                     => Shows("    id: " \o Slice(args.tool_id, 24) \o "...")
              /\ args.tool_id = ""
                     => ~\E j \in 1..Len(stdout) :
                            StartsWith(LineText(stdout[j]), "    id:")
    /\ op = "tool_result"
           => /\ ~raised
              /\ Shows("    tool_use_id: " \o Slice(args.tool_id, 24) \o "...")

\* an id shorter than the cut
IdShownWitness ==
    /\ op = "tool_result"
    /\ args.tool_id # ""
    /\ Len(args.tool_id) < 24
    /\ Shows("    tool_use_id: " \o args.tool_id \o "...")

Renderers == {"separator", "header", "section", "key_value", "json_block",
              "request_raw", "response_raw", "loop_iteration",
              "messages_snapshot", "tool_call", "tool_result",
              "llm_request_summary", "llm_response_summary",
              "response_content_blocks", "loop_end", "user_input"}

\* C7: no renderer propagates an error on malformed input (a message
\* without role, a tool without name or description, a response without id
\* or usage, content that is neither a string nor a list): the call returns.
RenderersNeverRaise == op \in Renderers => ~raised

\* s itself up to the limit, its first limit characters and "..." beyond it
Truncated(s, limit) ==
    IF Len(s) <= limit THEN s ELSE SubSeq(s, 1, limit) \o "..."

\* C8: the messages_snapshot preview of string content (limit 60) and the
\* tool_result content preview (limit 300) are the string itself up to the
\* limit and its first limit characters followed by "..." beyond it.
PreviewTruncationExact ==
    /\ op = "tool_result"
           => Shows("    content: \"" \o Truncated(args.content, 300) \o "\"")
    /\ (op = "messages_snapshot" /\ verbose)
           => \A i \in 1..Len(args.messages) :
                  LET msg == args.messages[i]
                      content == DictGet(msg, "content", PStr(""))
                  IN  content.t = "str"
                          => Shows("    [" \o ToString(i - 1) \o "] "
                                   \o PyStr(DictGet(msg, "role", PStr("unknown")))
                                   \o ": " \o Truncated(content.v, 60))

\* content of exactly the limit, shown without an ellipsis
PreviewTruncationWitness ==
    /\ op = "tool_result"
    /\ Len(args.content) = 300
    /\ Shows("    content: \"" \o args.content \o "\"")

\* the printed block frames the lines of the data's encoding
FramedBlock(block, data) ==
    LET formatted == JsonDumpsLines(data, 2)
        Width(j) == Len(LineText(block[j]))
    IN  /\ Len(block) = Len(formatted) + 2
        /\ Width(1) = Width(Len(block))
        /\ \A j \in 1..Len(formatted) :
               LET body == LineText(block[j + 1])
                   shown == IF Len(formatted[j]) > 74
                            THEN SubSeq(formatted[j], 1, 71) \o "..."
                            ELSE formatted[j]
               IN  /\ Width(j + 1) = Width(1)
                   /\ body = "  | " \o shown \o Rep(" ", 74 - Len(shown)) \o " |"

\* C9: in the block _print_code_block prints, a JSON line of more than 74
\* characters is replaced by its first 71 characters and "...", a shorter
\* line is shown whole, and every body line is as wide as the two borders.
CodeBlockFramed ==
    /\ (op = "_print_code_block" /\ JsonEncodable(args.data))
           => FramedBlock(stdout, args.data)
    /\ (op = "request_raw" /\ show_raw /\ ~raised)
           => LET data == FullRequest(args.model, args.system, args.messages,
                                      args.tools, args.max_tokens)
                  size == Len(JsonDumpsLines(data, 2)) + 2
              IN  JsonEncodable(data)
                      => /\ Len(stdout) >= size
                         /\ FramedBlock(SubSeq(stdout, Len(stdout) - size + 1,
                                               Len(stdout)), data)

\* a line of exactly 74 characters and a line of 75 in one block
CodeBlockWitness ==
    /\ op = "_print_code_block"
    /\ JsonEncodable(args.data)
    /\ \E j \in 1..Len(JsonDumpsLines(args.data, 2)) :
           Len(JsonDumpsLines(args.data, 2)[j]) = 74
    /\ \E j \in 1..Len(JsonDumpsLines(args.data, 2)) :
           Len(JsonDumpsLines(args.data, 2)[j]) = 75

\* C10: the iteration counter is the argument of the latest loop_iteration
\* call made while verbose, or 0 if there was none; only loop_iteration
\* writes it, and not when verbose is off; no operation changes verbose or
\* show_raw.
IterationCounterFrame ==
    /\ [](_iteration = hist_iteration)
    /\ [][_iteration' # _iteration => (op' = "loop_iteration" /\ verbose)]_vars
    /\ [][verbose' = verbose /\ show_raw' = show_raw]_vars

\* a verbose loop_iteration(1) call has just written the counter
IterationCounterWitness ==
    /\ op = "loop_iteration"
    /\ verbose
    /\ _iteration = 1
    /\ hist_iteration = 1
    /\ args.iteration = 1
====
